---- MODULE Spec2Model ----
(***************************************************************************)
(* Model of the firewall analyzer: PolicyManager (policy_manager.py),      *)
(* DecisionEngine (decision_engine.py) and AIServiceClient                 *)
(* (ai_service_client.py).                                                 *)
(*                                                                         *)
(* Values.  A Python str is a sequence of tokens; a token is a chunk of    *)
(* characters without '-' or the single character "-".  A value of type    *)
(* Any (PolicyCondition.value) is a pair <<type, payload>>, so that        *)
(* 80 and "80" are different values, as in Python.  A float score is kept  *)
(* in thousandths (the scorer rounds to 3 decimals).                       *)
(***************************************************************************)
EXTENDS Integers, Sequences, FiniteSets, TLC

VARIABLES
    policies,                     \* PolicyManager._policies
    policy_id_map,                \* PolicyManager._policy_id_map
    next_order,                   \* PolicyManager._next_order
    policies_without_conditions,  \* PolicyManager._policies_without_conditions
    indexes,                      \* PolicyManager._indexes
    pm_call,                      \* the last PolicyManager call and its outcome
    cache_key_to_anomaly_score,   \* DecisionEngine._cache_key_to_anomaly_score
    connection_by_id,             \* DecisionEngine._connection_by_id
    pending_queue,                \* AIServiceClient.pending_queue: requests, oldest first
    last_request_time,            \* AIServiceClient.last_request_time
    processing_task,              \* AIServiceClient.processing_task: a task of tasks, 0 is None
    shutdown_event,               \* AIServiceClient.shutdown_event
    tasks,                        \* the _process_batches tasks created so far
    reqs,                         \* the evaluate_connection calls made so far, with their futures
    stops,                        \* the stop() calls made so far; submitted is the
                                  \* number of requests made before the call
    last_scorer_call,             \* the latest analyze_connections invocation
    now                           \* time.time(), in ticks

pm_vars == <<policies, policy_id_map, next_order, policies_without_conditions,
             indexes, pm_call>>

engine_vars == <<cache_key_to_anomaly_score, connection_by_id>>

ai_vars == <<pending_queue, last_request_time, processing_task, shutdown_event,
             tasks, reqs, stops, last_scorer_call, now>>

vars == <<policies, policy_id_map, next_order, policies_without_conditions,
          indexes, pm_call, cache_key_to_anomaly_score, connection_by_id,
          pending_queue, last_request_time, processing_task, shutdown_event,
          tasks, reqs, stops, last_scorer_call, now>>

----------------------------------------------------------------------------
(* Bounds *)

MaxPolicies == 3
MaxRequests == 3
MaxTasks == 3
MaxStops == 2
\* stop() calls in the specifications in which requests keep arriving
MaxStopsUnderLoad == 1
MaxTime == 3

----------------------------------------------------------------------------
(* Data model: src/src/core/models.py *)

ConnectionField == {"source_ip", "destination_ip", "destination_port", "protocol"}

Actions == {"allow", "block", "alert"}

StrV(s) == <<"str", s>>
IntV(n) == <<"int", n>>
ListV(s) == <<"list", s>>

\* list values are unhashable in Python: they cannot be dict keys
Hashable(value) == value[1] # "list"

Condition(f, v) == [field |-> f, operator |-> "==", value |-> v]

Connection(id, src, dst, port, proto, ts) ==
    [connection_id |-> id, source_ip |-> src, destination_ip |-> dst,
     destination_port |-> port, protocol |-> proto, timestamp |-> ts]

Policy(id, conds, act) ==
    [policy_id |-> id, conditions |-> conds, action |-> act]

\* getattr(connection, field): the field's value, with its Python type
GetAttr(connection, field) ==
    CASE field = "source_ip"        -> StrV(connection.source_ip)
      [] field = "destination_ip"   -> StrV(connection.destination_ip)
      [] field = "destination_port" -> IntV(connection.destination_port)
      [] field = "protocol"         -> StrV(connection.protocol)

\* str.upper() on the protocol names used here
Upper(s) ==
    [i \in DOMAIN s |->
        CASE s[i] \in {"tcp", "Tcp", "TCP"} -> "TCP"
          [] s[i] \in {"udp", "Udp", "UDP"} -> "UDP"
          [] OTHER -> s[i]]

\* the Protocol enum
Protocols == {<<"TCP">>, <<"UDP">>}

ConnectionInput(src, dst, port, proto, ts) ==
    [source_ip |-> src, destination_ip |-> dst, destination_port |-> port,
     protocol |-> proto, timestamp |-> ts]

\* ConnectionInput.protocol_uppercase, the validator that runs before the
\* Protocol enum is checked
ProtocolUppercase(v) == Upper(v)

\* the ConnectionInput validation accepts the protocol
ValidInput(data) == ProtocolUppercase(data.protocol) \in Protocols

\* Connection.from_input: the validated input with a new connection_id
FromInput(id, data) ==
    Connection(id, data.source_ip, data.destination_ip, data.destination_port,
               ProtocolUppercase(data.protocol), data.timestamp)

----------------------------------------------------------------------------
(* Inputs *)

PolicyIds == {"p1", "p2", "p3", "p4"}

IP1 == <<"1.1.1.1">>
IP2 == <<"2.2.2.2">>

Port80 == Condition("destination_port", IntV(80))
Port443 == Condition("destination_port", IntV(443))
Port80Str == Condition("destination_port", StrV(<<"80">>))
ProtoTCP == Condition("protocol", StrV(<<"TCP">>))
ProtoUDP == Condition("protocol", StrV(<<"UDP">>))
SrcIP1 == Condition("source_ip", StrV(IP1))
SrcList == Condition("source_ip", ListV(IP1))
DstIP2 == Condition("destination_ip", StrV(IP2))

\* the policies submitted to add_policy: several per id, with no condition,
\* one condition, two conditions of which one or both can hold, a value of
\* the wrong type and an unhashable value
PolicyInputs ==
    { Policy("p1", <<>>, "allow"),
      Policy("p1", <<Port80>>, "allow"),
      Policy("p1", <<Port80, ProtoTCP>>, "block"),
      Policy("p1", <<ProtoTCP, SrcList>>, "allow"),
      Policy("p2", <<Port80>>, "block"),
      Policy("p2", <<Port80, ProtoUDP>>, "alert"),
      Policy("p2", <<>>, "block"),
      Policy("p2", <<Port80Str>>, "allow"),
      Policy("p3", <<ProtoTCP>>, "alert"),
      Policy("p3", <<SrcIP1>>, "allow"),
      Policy("p3", <<Port80, Port443>>, "block"),
      Policy("p3", <<Port443>>, "allow"),
      Policy("p4", <<DstIP2, SrcIP1>>, "alert"),
      Policy("p4", <<>>, "alert") }

QueryConnections ==
    { Connection("c1", src, IP2, port, proto, 0) :
        src \in {IP1, IP2}, port \in {80, 443}, proto \in {<<"TCP">>, <<"UDP">>} }

----------------------------------------------------------------------------
(* PolicyManager: src/src/services/policy_manager.py *)

EmptyIndexes == [f \in ConnectionField |-> <<>>]

NoneResult == [kind |-> "None"]
PolicyResult(p) == [kind |-> "policy", policy |-> p]
Raised(exc) == [kind |-> "raise", exc |-> exc]

\* variant: the index entry is assigned the new order instead of being
\* added to
RECURSIVE UpdateIndexesReplacing(_, _, _, _)
UpdateIndexesReplacing(idx, conds, order, i) ==
    IF i > Len(conds) THEN [indexes |-> idx, raised |-> FALSE]
    ELSE LET field == conds[i].field
             value == conds[i].value
         IN IF field \in DOMAIN idx
            THEN IF ~Hashable(value)
                 THEN [indexes |-> idx, raised |-> TRUE]
                 ELSE LET new == [v \in (DOMAIN idx[field]) \cup {value} |->
                                    IF v = value THEN {order}
                                    ELSE idx[field][v]]
                      IN UpdateIndexesReplacing([idx EXCEPT ![field] = new],
                                                conds, order, i + 1)
            ELSE UpdateIndexesReplacing(idx, conds, order, i + 1)

\* _update_indexes: the conditions are indexed one by one; an unhashable
\* value raises TypeError at the membership test, after the earlier
\* conditions have been indexed.
RECURSIVE UpdateIndexes(_, _, _, _)
UpdateIndexes(idx, conds, order, i) ==
    IF i > Len(conds) THEN [indexes |-> idx, raised |-> FALSE]
    ELSE LET field == conds[i].field
             value == conds[i].value
         IN IF field \in DOMAIN idx
            THEN IF ~Hashable(value)
                 THEN [indexes |-> idx, raised |-> TRUE]
                 ELSE LET old == IF value \in DOMAIN idx[field]
                                 THEN idx[field][value] ELSE {}
                          new == [v \in (DOMAIN idx[field]) \cup {value} |->
                                    IF v = value THEN old \cup {order}
                                    ELSE idx[field][v]]
                      IN UpdateIndexes([idx EXCEPT ![field] = new], conds, order, i + 1)
            ELSE UpdateIndexes(idx, conds, order, i + 1)

\* variant: returns after checking the first condition only
EvaluateFirstConditionOnly(policy, connection) ==
    \A i \in 1..Len(policy.conditions) :
        i = 1 => GetAttr(connection, policy.conditions[i].field) = policy.conditions[i].value

\* _evaluate_policy_conditions
EvaluatePolicyConditions(policy, connection) ==
    \A i \in 1..Len(policy.conditions) :
        GetAttr(connection, policy.conditions[i].field) = policy.conditions[i].value

\* variant: the unconditional set is not added to the candidates
CandidateSetsIndexedOnly(connection) ==
    { indexes[f][GetAttr(connection, f)] :
        f \in { g \in DOMAIN indexes : GetAttr(connection, g) \in DOMAIN indexes[g]
                                       /\ indexes[g][GetAttr(connection, g)] # {} } }

\* get_matching_policy, lines 54-64: the candidate sets
CandidateSets(connection) ==
    (IF policies_without_conditions # {} THEN {policies_without_conditions} ELSE {})
    \cup
    { indexes[f][GetAttr(connection, f)] :
        f \in { g \in DOMAIN indexes : GetAttr(connection, g) \in DOMAIN indexes[g]
                                       /\ indexes[g][GetAttr(connection, g)] # {} } }

\* variant: the candidate orders are visited in descending order
RECURSIVE FirstMatchDescending(_, _)
FirstMatchDescending(orders, connection) ==
    IF orders = {} THEN NoneResult
    ELSE LET order == CHOOSE o \in orders : \A q \in orders : o >= q
         IN IF order >= Len(policies) THEN Raised("IndexError")
            ELSE IF EvaluatePolicyConditions(policies[order + 1], connection)
                 THEN PolicyResult(policies[order + 1])
                 ELSE FirstMatchDescending(orders \ {order}, connection)

\* get_matching_policy, lines 66-73: orders are 0-based positions of _policies;
\* reading a position outside the list raises IndexError
RECURSIVE FirstMatch(_, _)
FirstMatch(orders, connection) ==
    IF orders = {} THEN NoneResult
    ELSE LET order == CHOOSE o \in orders : \A q \in orders : o <= q
         IN IF order >= Len(policies) THEN Raised("IndexError")
            ELSE IF EvaluatePolicyConditions(policies[order + 1], connection)
                 THEN PolicyResult(policies[order + 1])
                 ELSE FirstMatch(orders \ {order}, connection)

GetMatchingPolicy(connection) ==
    LET candidate_sets == CandidateSets(connection)
    IN IF candidate_sets # {}
       THEN FirstMatch(UNION candidate_sets, connection)
       ELSE NoneResult

\* add_policy, lines 26-28
AddPolicyConflict(policy) == policy.policy_id \in DOMAIN policy_id_map

\* variant: the order is taken before the id is checked
AddPolicyRejectedAfterOrder(policy) ==
    [policies |-> policies, policy_id_map |-> policy_id_map,
     next_order |-> next_order + 1,
     policies_without_conditions |-> policies_without_conditions,
     indexes |-> indexes, result |-> Raised("ValueError")]

\* add_policy, lines 26-28: the id is taken, ValueError, nothing is written
AddPolicyRejected(policy) ==
    [policies |-> policies, policy_id_map |-> policy_id_map,
     next_order |-> next_order,
     policies_without_conditions |-> policies_without_conditions,
     indexes |-> indexes, result |-> Raised("ValueError")]

\* variant: the unconditional set is assigned the new order instead of
\* being added to
AddPolicyAcceptedResettingUnconditional(policy) ==
    LET stored == [policy_id |-> policy.policy_id,
                   conditions |-> policy.conditions,
                   action |-> policy.action,
                   original_order |-> next_order]
        upd == UpdateIndexes(indexes, policy.conditions, next_order, 1)
    IN [policies |-> Append(policies, stored),
        policy_id_map |-> [id \in (DOMAIN policy_id_map) \cup {policy.policy_id} |->
                             IF id = policy.policy_id THEN stored
                             ELSE policy_id_map[id]],
        next_order |-> next_order + 1,
        policies_without_conditions |->
            IF Len(policy.conditions) = 0
            THEN {next_order}
            ELSE policies_without_conditions,
        indexes |-> upd.indexes,
        result |-> IF upd.raised THEN Raised("TypeError") ELSE NoneResult]

\* add_policy, lines 29-35
AddPolicyAccepted(policy) ==
    LET stored == [policy_id |-> policy.policy_id,
                   conditions |-> policy.conditions,
                   action |-> policy.action,
                   original_order |-> next_order]
        upd == UpdateIndexes(indexes, policy.conditions, next_order, 1)
    IN [policies |-> Append(policies, stored),
        policy_id_map |-> [id \in (DOMAIN policy_id_map) \cup {policy.policy_id} |->
                             IF id = policy.policy_id THEN stored
                             ELSE policy_id_map[id]],
        next_order |-> next_order + 1,
        policies_without_conditions |->
            IF Len(policy.conditions) = 0
            THEN policies_without_conditions \cup {next_order}
            ELSE policies_without_conditions,
        indexes |-> upd.indexes,
        result |-> IF upd.raised THEN Raised("TypeError") ELSE NoneResult]

\* add_policy: the state after the call and whether it raised
AddPolicyOutcome(policy) ==
    IF AddPolicyConflict(policy)
    THEN AddPolicyRejected(policy)
    ELSE AddPolicyAccepted(policy)

AddPolicy(policy) ==
    /\ AddPolicyConflict(policy) \/ Len(policies) < MaxPolicies
    /\ LET out == AddPolicyOutcome(policy)
       IN /\ policies' = out.policies
          /\ policy_id_map' = out.policy_id_map
          /\ next_order' = out.next_order
          /\ policies_without_conditions' = out.policies_without_conditions
          /\ indexes' = out.indexes
          /\ pm_call' = [op |-> "add_policy", policy |-> policy, result |-> out.result]
    /\ UNCHANGED <<engine_vars, ai_vars>>

\* define_security_policy, main.py lines 115-129: add_policy, then 201 with
\* the policy, 409 for a ValueError and 500 for any other exception
PolicyResponse(policy, result) ==
    CASE result = NoneResult -> [status |-> 201, body |-> policy]
      [] result = Raised("ValueError") -> [status |-> 409]
      [] OTHER -> [status |-> 500]

DefineSecurityPolicy(policy) ==
    /\ AddPolicyConflict(policy) \/ Len(policies) < MaxPolicies
    /\ LET out == AddPolicyOutcome(policy)
       IN /\ policies' = out.policies
          /\ policy_id_map' = out.policy_id_map
          /\ next_order' = out.next_order
          /\ policies_without_conditions' = out.policies_without_conditions
          /\ indexes' = out.indexes
          /\ pm_call' = [op |-> "define_security_policy", policy |-> policy,
                         result |-> out.result,
                         response |-> PolicyResponse(policy, out.result)]
    /\ UNCHANGED <<engine_vars, ai_vars>>

GetMatchingPolicyCall(connection) ==
    /\ pm_call' = [op |-> "get_matching_policy", connection |-> connection,
                   result |-> GetMatchingPolicy(connection)]
    /\ UNCHANGED <<policies, policy_id_map, next_order,
                   policies_without_conditions, indexes>>
    /\ UNCHANGED <<engine_vars, ai_vars>>

\* clear_policies, lines 84-92: the list, the id map, the indexes and the
\* counter are reset; _policies_without_conditions is not assigned
ClearPolicies ==
    /\ policies' = <<>>
    /\ policy_id_map' = <<>>
    /\ indexes' = EmptyIndexes
    /\ next_order' = 0
    /\ pm_call' = [op |-> "clear_policies"]
    /\ UNCHANGED policies_without_conditions
    /\ UNCHANGED <<engine_vars, ai_vars>>

----------------------------------------------------------------------------
(* DecisionEngine: src/src/services/decision_engine.py *)

\* the anomaly threshold 0.8, in thousandths
Threshold == 800

NoPolicyId == "<None>"

\* str(n) inside the f-string
IntToStr(n) == <<ToString(n)>>

\* hashlib.sha256(...).hexdigest(): taken as collision-free, so the digest
\* stands for the string that was hashed
Sha256(key_str) == key_str

\* _make_cache_key
MakeCacheKey(conn) ==
    Sha256(conn.source_ip \o <<"-">> \o conn.destination_ip \o <<"-">>
           \o IntToStr(conn.destination_port) \o <<"-">> \o conn.protocol)

\* variant: the override to alert forgets the matched policy
ResolveVerdictOverrideDropsPolicy(matched, anomaly_score) ==
    IF matched.kind = "policy"
    THEN IF anomaly_score > Threshold /\ matched.policy.action \notin {"block", "alert"}
         THEN [decision |-> "alert", policy_id |-> NoPolicyId]
         ELSE [decision |-> matched.policy.action,
               policy_id |-> matched.policy.policy_id]
    ELSE IF anomaly_score > Threshold
         THEN [decision |-> "alert", policy_id |-> NoPolicyId]
         ELSE [decision |-> "drop", policy_id |-> NoPolicyId]

\* variant: a score equal to the threshold counts as anomalous
ResolveVerdictInclusive(matched, anomaly_score) ==
    IF matched.kind = "policy"
    THEN [decision |-> IF anomaly_score >= Threshold
                          /\ matched.policy.action \notin {"block", "alert"}
                       THEN "alert"
                       ELSE matched.policy.action,
          policy_id |-> matched.policy.policy_id]
    ELSE IF anomaly_score >= Threshold
         THEN [decision |-> "alert", policy_id |-> NoPolicyId]
         ELSE [decision |-> "drop", policy_id |-> NoPolicyId]

\* evaluate_connection, lines 32-44
ResolveVerdict(matched, anomaly_score) ==
    IF matched.kind = "policy"
    THEN [decision |-> IF anomaly_score > Threshold
                          /\ matched.policy.action \notin {"block", "alert"}
                       THEN "alert"
                       ELSE matched.policy.action,
          policy_id |-> matched.policy.policy_id]
    ELSE IF anomaly_score > Threshold
         THEN [decision |-> "alert", policy_id |-> NoPolicyId]
         ELSE [decision |-> "drop", policy_id |-> NoPolicyId]

\* evaluate_connection, lines 46-51
AnalyzedConnection(conn, anomaly_score, verdict) ==
    [connection_id |-> conn.connection_id, source_ip |-> conn.source_ip,
     destination_ip |-> conn.destination_ip,
     destination_port |-> conn.destination_port, protocol |-> conn.protocol,
     timestamp |-> conn.timestamp, anomaly_score |-> anomaly_score,
     decision |-> verdict.decision, policy_id |-> verdict.policy_id]

\* variant: a result already stored under the connection_id is kept
FinishEvaluationKeepFirst(conn, anomaly_score, store) ==
    LET matched == GetMatchingPolicy(conn)
    IN IF matched.kind = "raise"
       THEN [outcome |-> matched, connection_by_id |-> store]
       ELSE LET analyzed == AnalyzedConnection(conn, anomaly_score,
                                               ResolveVerdict(matched, anomaly_score))
            IN [outcome |-> [kind |-> "return", analyzed |-> analyzed],
                connection_by_id |->
                    [id \in (DOMAIN store) \cup {conn.connection_id} |->
                        IF id \in DOMAIN store THEN store[id] ELSE analyzed]]

\* variant: the verdict is remembered with the score; an evaluation whose
\* fingerprint has a stored result takes decision and policy_id from it
FinishEvaluationReusingVerdict(conn, anomaly_score, store) ==
    LET matched == GetMatchingPolicy(conn)
        same == { id \in DOMAIN store :
                    /\ store[id].source_ip = conn.source_ip
                    /\ store[id].destination_ip = conn.destination_ip
                    /\ store[id].destination_port = conn.destination_port
                    /\ store[id].protocol = conn.protocol }
    IN IF matched.kind = "raise"
       THEN [outcome |-> matched, connection_by_id |-> store]
       ELSE LET verdict == IF same # {}
                           THEN LET old == store[CHOOSE id \in same : TRUE]
                                IN [decision |-> old.decision,
                                    policy_id |-> old.policy_id]
                           ELSE ResolveVerdict(matched, anomaly_score)
                analyzed == AnalyzedConnection(conn, anomaly_score, verdict)
            IN [outcome |-> [kind |-> "return", analyzed |-> analyzed],
                connection_by_id |->
                    [id \in (DOMAIN store) \cup {conn.connection_id} |->
                        IF id = conn.connection_id THEN analyzed ELSE store[id]]]

\* evaluate_connection, lines 29-54, once the score is known: what the call
\* returns or raises, and the result store afterwards
FinishEvaluation(conn, anomaly_score, store) ==
    LET matched == GetMatchingPolicy(conn)
    IN IF matched.kind = "raise"
       THEN [outcome |-> matched, connection_by_id |-> store]
       ELSE LET analyzed == AnalyzedConnection(conn, anomaly_score,
                                               ResolveVerdict(matched, anomaly_score))
            IN [outcome |-> [kind |-> "return", analyzed |-> analyzed],
                connection_by_id |->
                    [id \in (DOMAIN store) \cup {conn.connection_id} |->
                        IF id = conn.connection_id THEN analyzed ELSE store[id]]]

\* get_connection: dict.get, None for an unknown id
GetConnection(connection_id) ==
    IF connection_id \in DOMAIN connection_by_id
    THEN connection_by_id[connection_id]
    ELSE NoneResult

\* variant: get_connection_details without the test for an unknown id
GetConnectionDetailsUnchecked(connection_id) ==
    [status |-> 200, body |-> GetConnection(connection_id)]

\* get_connection_details, main.py lines 131-141
GetConnectionDetails(connection_id) ==
    IF GetConnection(connection_id) = NoneResult
    THEN [status |-> 404]
    ELSE [status |-> 200, body |-> GetConnection(connection_id)]

----------------------------------------------------------------------------
(* AIServiceClient: src/src/services/ai_service_client.py *)

\* Config.AI_MAX_BATCH_SIZE
max_batch_size == 2

\* Config.AI_BATCH_TIMEOUT_MS, in ticks
batch_timeout == 1

\* 1 / Config.AI_RATE_LIMIT_RPS, in ticks
min_interval == 2

\* the 1 ms floor of the collection wait and the 1 ms idle sleep, in ticks
MinWait == 0

\* anomaly scores in thousandths: below, at and above the threshold
Scores == {300, 800, 950}

Min(a, b) == IF a < b THEN a ELSE b
Max(a, b) == IF a > b THEN a ELSE b

PendingFuture == [state |-> "pending"]

NoScorerCall == [time |-> 0, task |-> 0, drain |-> FALSE, connections |-> <<>>,
                 outcome |-> [kind |-> "none"]]

NewTask == [pc |-> "created", connections |-> <<>>, batch_start_time |-> 0,
            deadline |-> 0, drain |-> FALSE, cancel |-> FALSE]

DoneTask == [pc |-> "done", connections |-> <<>>, batch_start_time |-> 0,
             deadline |-> 0, drain |-> FALSE, cancel |-> FALSE]

TaskDone(t) == tasks[t].pc = "done"

\* "self.processing_task is None or self.processing_task.done()"
NotRunning == IF processing_task = 0 THEN TRUE ELSE TaskDone(processing_task)

\* what analyze_connections can do with a batch: raise, or return one score
\* per connection
ScorerOutcomes(scores) ==
    {[kind |-> "raise"]} \cup
    {[kind |-> "scores", scores |-> s] : s \in [1..max_batch_size -> scores]}

\* variant: the scorer's exception reaches the first future of the batch only
RECURSIVE DeliverErrorToFirst(_, _, _, _)
DeliverErrorToFirst(rq, batch, outcome, i) ==
    IF i > Len(batch) THEN rq
    ELSE LET r == batch[i]
         IN IF outcome.kind = "raise"
            THEN IF rq[r].future.state = "pending"
                 THEN [rq EXCEPT ![r].future = [state |-> "exception", exc |-> "ScorerError"],
                                 ![r].completions = @ + 1]
                 ELSE rq
            ELSE IF rq[r].future.state = "pending"
                 THEN DeliverErrorToFirst(
                        [rq EXCEPT ![r].future = [state |-> "result",
                                                  value |-> outcome.scores[i]],
                                   ![r].completions = @ + 1],
                        batch, outcome, i + 1)
                 ELSE DeliverErrorToFirst(rq, batch, outcome, i + 1)

\* variant: set_result without the done() test; on a future that is done it
\* raises InvalidStateError, which the except branch then sets on the
\* futures of the batch that are still pending
RECURSIVE DeliverUnchecked(_, _, _, _)
DeliverUnchecked(rq, batch, outcome, i) ==
    IF i > Len(batch) THEN rq
    ELSE LET r == batch[i]
             failed(exc) ==
                 [q \in DOMAIN rq |->
                     IF q \in { batch[j] : j \in 1..Len(batch) }
                        /\ rq[q].future.state = "pending"
                     THEN [rq[q] EXCEPT !.future = [state |-> "exception", exc |-> exc],
                                        !.completions = @ + 1]
                     ELSE rq[q]]
         IN IF outcome.kind = "raise" THEN failed("ScorerError")
            ELSE IF rq[r].future.state = "pending"
                 THEN DeliverUnchecked(
                        [rq EXCEPT ![r].future = [state |-> "result",
                                                  value |-> outcome.scores[i]],
                                   ![r].completions = @ + 1],
                        batch, outcome, i + 1)
                 ELSE failed("InvalidStateError")

\* _send_batch_to_ai, lines 78-87: the scores go to the futures by position,
\* an exception goes to every future of the batch; a future that is done is
\* left alone
RECURSIVE Deliver(_, _, _, _)
Deliver(rq, batch, outcome, i) ==
    IF i > Len(batch) THEN rq
    ELSE LET r == batch[i]
             fut == IF outcome.kind = "raise"
                    THEN [state |-> "exception", exc |-> "ScorerError"]
                    ELSE [state |-> "result", value |-> outcome.scores[i]]
         IN IF rq[r].future.state = "pending"
            THEN Deliver([rq EXCEPT ![r].future = fut,
                                    ![r].completions = @ + 1],
                         batch, outcome, i + 1)
            ELSE Deliver(rq, batch, outcome, i + 1)

\* _handle_shutdown, lines 108-115: what is left in the queue is cancelled
RECURSIVE CancelStragglers(_)
CancelStragglers(ctx) ==
    IF ctx.pending_queue = <<>> THEN ctx
    ELSE LET r == Head(ctx.pending_queue)
         IN CancelStragglers(
              [ctx EXCEPT !.pending_queue = Tail(@),
                          !.reqs = IF @[r].future.state = "pending"
                                   THEN [@ EXCEPT ![r].future =
                                            [state |-> "exception", exc |-> "CancelledError"],
                                                  ![r].completions = @ + 1]
                                   ELSE @])

\* variant: the loop admits one item more
BatchFullOffByOne(connections) == Len(connections) > max_batch_size

\* _collect_batch, line 36: the loop ends when the batch is full
BatchFull(connections) == Len(connections) >= max_batch_size

\* _collect_batch, lines 37-38
TimeoutRemaining(batch_start_time) ==
    Max(MinWait, batch_timeout - (now - batch_start_time))

\* _collect_batch, lines 32-44: a new batch, suspended in the first wait_for
EnterCollect(ctx) ==
    [ctx EXCEPT !.task = [pc |-> "collect", connections |-> <<>>,
                          batch_start_time |-> now,
                          deadline |-> now + TimeoutRemaining(now),
                          drain |-> FALSE, cancel |-> FALSE]]

RECURSIVE HandleShutdown(_, _)
RECURSIVE SendBatchToAI(_, _, _)

\* _process_batches, line 124: the loop condition
LoopHead(ctx, outcome) ==
    IF shutdown_event THEN HandleShutdown(ctx, outcome) ELSE EnterCollect(ctx)

\* where _send_batch_to_ai returns to: the drain loop or the processing loop
AfterSend(ctx, drain, outcome) ==
    IF drain THEN HandleShutdown(ctx, outcome) ELSE LoopHead(ctx, outcome)

\* _send_batch_to_ai, lines 74-87: the scorer is called and answers
Dispatch(ctx, drain, outcome) ==
    LET batch == ctx.task.connections
        answer == IF outcome.kind = "raise" THEN outcome
                  ELSE [kind |-> "scores",
                        scores |-> SubSeq(outcome.scores, 1, Len(batch))]
    IN AfterSend([ctx EXCEPT
                    !.last_request_time = now,
                    !.last_scorer_call = [time |-> now, task |-> ctx.id,
                                          drain |-> drain,
                                          connections |-> batch,
                                          outcome |-> answer],
                    !.reqs = Deliver(@, batch, answer, 1)],
                 drain, outcome)

\* _send_batch_to_ai, lines 64-72
SendBatchToAI(ctx, drain, outcome) ==
    IF ctx.task.connections = <<>> THEN AfterSend(ctx, drain, outcome)
    ELSE LET time_since_last_request == now - ctx.last_request_time
         IN IF time_since_last_request < min_interval
            THEN [ctx EXCEPT !.task.pc = "rate_wait",
                             !.task.batch_start_time = 0,
                             !.task.deadline = now + (min_interval - time_since_last_request),
                             !.task.drain = drain]
            ELSE Dispatch(ctx, drain, outcome)

\* _handle_shutdown
HandleShutdown(ctx, outcome) ==
    IF ctx.pending_queue # <<>>
    THEN LET n == Min(Len(ctx.pending_queue), max_batch_size)
         IN SendBatchToAI([ctx EXCEPT
                             !.task.connections = SubSeq(ctx.pending_queue, 1, n),
                             !.pending_queue = SubSeq(@, n + 1, Len(@))],
                          TRUE, outcome)
    ELSE CancelStragglers([ctx EXCEPT !.task = DoneTask])

\* the part of the state a step of task t works on
Ctx(t) == [id |-> t, task |-> tasks[t], pending_queue |-> pending_queue,
           reqs |-> reqs, last_request_time |-> last_request_time,
           last_scorer_call |-> last_scorer_call]

Commit(t, ctx) ==
    /\ tasks' = [tasks EXCEPT ![t] = ctx.task]
    /\ pending_queue' = ctx.pending_queue
    /\ reqs' = ctx.reqs
    /\ last_request_time' = ctx.last_request_time
    /\ last_scorer_call' = ctx.last_scorer_call
    /\ UNCHANGED <<processing_task, shutdown_event, stops, now>>
    /\ UNCHANGED <<pm_vars, engine_vars>>

\* _process_batches: the first step of a created task
ProcessorRun(t, outcome) ==
    /\ tasks[t].pc = "created"
    /\ Commit(t, LoopHead(Ctx(t), outcome))

\* _collect_batch, lines 41-50: the wait_for returns an item
ProcessorGet(t, outcome) ==
    /\ tasks[t].pc = "collect"
    /\ ~tasks[t].cancel
    /\ pending_queue # <<>>
    /\ LET connections == Append(tasks[t].connections, Head(pending_queue))
           start == IF Len(connections) = 1 THEN now ELSE tasks[t].batch_start_time
           ctx == [Ctx(t) EXCEPT !.pending_queue = Tail(@),
                                 !.task.connections = connections,
                                 !.task.batch_start_time = start]
       IN IF ~BatchFull(connections)
          THEN Commit(t, [ctx EXCEPT !.task.deadline = now + TimeoutRemaining(start)])
          ELSE Commit(t, SendBatchToAI(ctx, FALSE, outcome))

\* _collect_batch, lines 52-53, and _process_batches, lines 127-132: the
\* wait_for times out.  wait_for returns the item when the queue has one at
\* the time its timer fires, so it times out on an empty queue only.
ProcessorTimeout(t, outcome) ==
    /\ tasks[t].pc = "collect"
    /\ ~tasks[t].cancel
    /\ now >= tasks[t].deadline
    /\ pending_queue = <<>>
    /\ IF tasks[t].connections # <<>>
       THEN Commit(t, SendBatchToAI(Ctx(t), FALSE, outcome))
       ELSE IF shutdown_event
            THEN Commit(t, HandleShutdown(Ctx(t), outcome))
            ELSE Commit(t, [Ctx(t) EXCEPT !.task.pc = "idle",
                                          !.task.deadline = now + MinWait])

\* _process_batches, line 132: the idle sleep ends
ProcessorIdleWake(t, outcome) ==
    /\ tasks[t].pc = "idle"
    /\ ~tasks[t].cancel
    /\ now >= tasks[t].deadline
    /\ Commit(t, LoopHead(Ctx(t), outcome))

\* _send_batch_to_ai, line 72: the rate-limit sleep ends
ProcessorRateWake(t, outcome) ==
    /\ tasks[t].pc = "rate_wait"
    /\ ~tasks[t].cancel
    /\ now >= tasks[t].deadline
    /\ Commit(t, Dispatch(Ctx(t), tasks[t].drain, outcome))

\* CancelledError is raised at the await the task is suspended in.  In
\* _process_batches it is caught (lines 133-135) and the finally clause runs
\* _handle_shutdown; the batch being collected or waiting for its rate-limit
\* slot is a local variable and is gone.  Raised inside _handle_shutdown it
\* ends the task.
ProcessorCancelled(t, outcome) ==
    /\ tasks[t].pc \in {"collect", "idle", "rate_wait"}
    /\ tasks[t].cancel
    /\ IF tasks[t].pc = "rate_wait" /\ tasks[t].drain
       THEN Commit(t, [Ctx(t) EXCEPT !.task = DoneTask])
       ELSE Commit(t, HandleShutdown([Ctx(t) EXCEPT !.task.connections = <<>>,
                                                     !.task.cancel = FALSE],
                                     outcome))

\* variant: start creates a task also when one is running
StartCallAlways ==
    /\ Len(tasks) < MaxTasks
    /\ shutdown_event' = FALSE
    /\ tasks' = Append(tasks, NewTask)
    /\ processing_task' = Len(tasks) + 1
    /\ UNCHANGED <<pending_queue, last_request_time, reqs, stops, last_scorer_call, now>>
    /\ UNCHANGED <<pm_vars, engine_vars>>

\* start: a task is created if none is running; otherwise nothing happens
StartCall ==
    /\ IF NotRunning
       THEN /\ Len(tasks) < MaxTasks
            /\ shutdown_event' = FALSE
            /\ tasks' = Append(tasks, NewTask)
            /\ processing_task' = Len(tasks) + 1
       ELSE UNCHANGED <<shutdown_event, tasks, processing_task>>
    /\ UNCHANGED <<pending_queue, last_request_time, reqs, stops, last_scorer_call, now>>
    /\ UNCHANGED <<pm_vars, engine_vars>>

\* stop, lines 188-189
JoinCheck == IF pending_queue # <<>> THEN "joining" ELSE "returned"

\* stop, lines 166-171 and 185-189
StopCall ==
    /\ Len(stops) < MaxStops
    /\ IF ~NotRunning
       THEN /\ shutdown_event' = TRUE
            /\ stops' = Append(stops, [pc |-> "waiting", task |-> processing_task,
                                       timed_out |-> FALSE,
                                       submitted |-> Len(reqs)])
       ELSE /\ stops' = Append(stops, [pc |-> JoinCheck, task |-> 0,
                                       timed_out |-> FALSE,
                                       submitted |-> Len(reqs)])
            /\ UNCHANGED shutdown_event
    /\ UNCHANGED <<pending_queue, last_request_time, processing_task, tasks,
                   reqs, last_scorer_call, now>>
    /\ UNCHANGED <<pm_vars, engine_vars>>

\* stop, lines 173-179: the 10 s wait_for expires while the task is suspended
\* and the task is cancelled
StopTimeout(s) ==
    /\ stops[s].pc = "waiting"
    /\ ~stops[s].timed_out
    /\ tasks[stops[s].task].pc \in {"collect", "idle", "rate_wait"}
    /\ ~tasks[stops[s].task].cancel
    /\ tasks' = [tasks EXCEPT ![stops[s].task].cancel = TRUE]
    /\ stops' = [stops EXCEPT ![s].timed_out = TRUE]
    /\ UNCHANGED <<pending_queue, last_request_time, processing_task,
                   shutdown_event, reqs, last_scorer_call, now>>
    /\ UNCHANGED <<pm_vars, engine_vars>>

\* stop, lines 171-172 and 182-189: the awaited task has ended
StopTaskDone(s) ==
    /\ stops[s].pc = "waiting"
    /\ TaskDone(stops[s].task)
    /\ processing_task' = 0
    /\ stops' = [stops EXCEPT ![s].pc = JoinCheck]
    /\ UNCHANGED <<pending_queue, last_request_time, shutdown_event, tasks,
                   reqs, last_scorer_call, now>>
    /\ UNCHANGED <<pm_vars, engine_vars>>

\* stop, line 189: pending_queue.join() returns
StopJoinReturn(s) ==
    /\ stops[s].pc = "joining"
    /\ pending_queue = <<>>
    /\ stops' = [stops EXCEPT ![s].pc = "returned"]
    /\ UNCHANGED <<pending_queue, last_request_time, processing_task,
                   shutdown_event, tasks, reqs, last_scorer_call, now>>
    /\ UNCHANGED <<pm_vars, engine_vars>>

\* variant: get_anomaly_score enqueues without starting the client
EvaluateConnectionNoAutoStart(conn) ==
    /\ Len(reqs) < MaxRequests
    /\ LET cache_key == MakeCacheKey(conn)
           r == Len(reqs) + 1
       IN IF cache_key \in DOMAIN cache_key_to_anomaly_score
          THEN LET fin == FinishEvaluation(conn, cache_key_to_anomaly_score[cache_key],
                                           connection_by_id)
               IN /\ reqs' = Append(reqs, [conn |-> conn, pc |-> "done",
                                           called_ai |-> FALSE,
                                           future |-> PendingFuture,
                                           completions |-> 0,
                                           outcome |-> fin.outcome])
                  /\ connection_by_id' = fin.connection_by_id
                  /\ UNCHANGED <<cache_key_to_anomaly_score, pending_queue,
                                 processing_task, shutdown_event, tasks>>
          ELSE /\ reqs' = Append(reqs, [conn |-> conn, pc |-> "waiting",
                                        called_ai |-> TRUE,
                                        future |-> PendingFuture,
                                        completions |-> 0,
                                        outcome |-> [kind |-> "none"]])
               /\ pending_queue' = Append(pending_queue, r)
               /\ UNCHANGED <<processing_task, shutdown_event, tasks>>
               /\ UNCHANGED engine_vars
    /\ UNCHANGED <<last_request_time, stops, last_scorer_call, now>>
    /\ UNCHANGED pm_vars

\* evaluate_connection up to its first suspension: a cached score completes
\* the call at once; otherwise get_anomaly_score starts the client if it is
\* not running, enqueues the connection with a new future and awaits it
EvaluateConnection(conn) ==
    /\ Len(reqs) < MaxRequests
    /\ LET cache_key == MakeCacheKey(conn)
           r == Len(reqs) + 1
       IN IF cache_key \in DOMAIN cache_key_to_anomaly_score
          THEN LET fin == FinishEvaluation(conn, cache_key_to_anomaly_score[cache_key],
                                           connection_by_id)
               IN /\ reqs' = Append(reqs, [conn |-> conn, pc |-> "done",
                                           called_ai |-> FALSE,
                                           future |-> PendingFuture,
                                           completions |-> 0,
                                           outcome |-> fin.outcome])
                  /\ connection_by_id' = fin.connection_by_id
                  /\ UNCHANGED <<cache_key_to_anomaly_score, pending_queue,
                                 processing_task, shutdown_event, tasks>>
          ELSE /\ reqs' = Append(reqs, [conn |-> conn, pc |-> "waiting",
                                        called_ai |-> TRUE,
                                        future |-> PendingFuture,
                                        completions |-> 0,
                                        outcome |-> [kind |-> "none"]])
               /\ pending_queue' = Append(pending_queue, r)
               /\ IF NotRunning
                  THEN /\ Len(tasks) < MaxTasks
                       /\ shutdown_event' = FALSE
                       /\ tasks' = Append(tasks, NewTask)
                       /\ processing_task' = Len(tasks) + 1
                  ELSE UNCHANGED <<processing_task, shutdown_event, tasks>>
               /\ UNCHANGED engine_vars
    /\ UNCHANGED <<last_request_time, stops, last_scorer_call, now>>
    /\ UNCHANGED pm_vars

\* variant: a failed get_anomaly_score leaves a score of 0 in the cache
EvaluateResumeCachingFailure(r) ==
    /\ reqs[r].pc = "waiting"
    /\ reqs[r].future.state # "pending"
    /\ LET cache_key == MakeCacheKey(reqs[r].conn)
           anomaly_score == IF reqs[r].future.state = "result"
                            THEN reqs[r].future.value ELSE 0
           fin == FinishEvaluation(reqs[r].conn, anomaly_score, connection_by_id)
       IN /\ cache_key_to_anomaly_score' =
                [k \in (DOMAIN cache_key_to_anomaly_score) \cup {cache_key} |->
                    IF k = cache_key THEN anomaly_score
                    ELSE cache_key_to_anomaly_score[k]]
          /\ IF reqs[r].future.state = "result"
             THEN /\ connection_by_id' = fin.connection_by_id
                  /\ reqs' = [reqs EXCEPT ![r].pc = "done", ![r].outcome = fin.outcome]
             ELSE /\ reqs' = [reqs EXCEPT ![r].pc = "done",
                                          ![r].outcome = Raised(reqs[r].future.exc)]
                  /\ UNCHANGED connection_by_id
    /\ UNCHANGED <<pending_queue, last_request_time, processing_task,
                   shutdown_event, tasks, stops, last_scorer_call, now>>
    /\ UNCHANGED pm_vars

\* evaluate_connection resumes when its future is done, lines 26-54
EvaluateResume(r) ==
    /\ reqs[r].pc = "waiting"
    /\ reqs[r].future.state # "pending"
    /\ IF reqs[r].future.state = "result"
       THEN LET anomaly_score == reqs[r].future.value
                cache_key == MakeCacheKey(reqs[r].conn)
                fin == FinishEvaluation(reqs[r].conn, anomaly_score, connection_by_id)
            IN /\ cache_key_to_anomaly_score' =
                     [k \in (DOMAIN cache_key_to_anomaly_score) \cup {cache_key} |->
                         IF k = cache_key THEN anomaly_score
                         ELSE cache_key_to_anomaly_score[k]]
               /\ connection_by_id' = fin.connection_by_id
               /\ reqs' = [reqs EXCEPT ![r].pc = "done", ![r].outcome = fin.outcome]
       ELSE /\ reqs' = [reqs EXCEPT ![r].pc = "done",
                                    ![r].outcome = Raised(reqs[r].future.exc)]
            /\ UNCHANGED engine_vars
    /\ UNCHANGED <<pending_queue, last_request_time, processing_task,
                   shutdown_event, tasks, stops, last_scorer_call, now>>
    /\ UNCHANGED pm_vars

\* the task awaiting evaluate_connection is cancelled while it waits for its
\* score (decision_engine.py line 26, ai_service_client.py line 153):
\* Task.cancel() cancels the future the task awaits, and CancelledError
\* ends the call; the request stays where it is, in the queue or in a batch
CancelCaller(r) ==
    /\ reqs[r].pc = "waiting"
    /\ reqs[r].future.state = "pending"
    /\ reqs' = [reqs EXCEPT ![r].future = [state |-> "cancelled"],
                            ![r].pc = "done",
                            ![r].outcome = Raised("CancelledError")]
    /\ UNCHANGED <<pending_queue, last_request_time, processing_task,
                   shutdown_event, tasks, stops, last_scorer_call, now>>
    /\ UNCHANGED <<pm_vars, engine_vars>>

\* a task suspended in a sleep or a wait_for whose time has come
TimerDue(t) ==
    /\ tasks[t].pc \in {"collect", "idle", "rate_wait"}
    /\ now >= tasks[t].deadline

\* a task the event loop can run now: created, cancelled, or suspended in
\* queue.get() while the queue holds an item
TaskReady(t) ==
    \/ tasks[t].pc = "created"
    \/ tasks[t].pc \in {"collect", "idle", "rate_wait"} /\ tasks[t].cancel
    \/ tasks[t].pc = "collect" /\ pending_queue # <<>>

\* a caller of evaluate_connection or of stop that can resume now
CallerReady ==
    \/ \E r \in 1..Len(reqs) : reqs[r].pc = "waiting" /\ reqs[r].future.state # "pending"
    \/ \E s \in 1..Len(stops) :
          \/ stops[s].pc = "waiting" /\ tasks[stops[s].task].pc = "done"
          \/ stops[s].pc = "joining" /\ pending_queue = <<>>

\* time passes.  A tick is long against a turn of the event loop: what is
\* ready runs, and a timer that is due fires, before a further tick goes by.
Tick ==
    /\ now < min_interval + MaxTime
    /\ \A t \in 1..Len(tasks) : ~TimerDue(t) /\ ~TaskReady(t)
    /\ ~CallerReady
    /\ now' = now + 1
    /\ UNCHANGED <<pending_queue, last_request_time, processing_task,
                   shutdown_event, tasks, reqs, stops, last_scorer_call>>
    /\ UNCHANGED <<pm_vars, engine_vars>>

----------------------------------------------------------------------------
(* Specifications *)

\* the connections submitted to evaluate_connection: two with the same
\* (source_ip, destination_ip, destination_port, protocol) and different
\* connection_id and timestamp, one with another port
RequestConnections ==
    { Connection("c1", IP1, IP2, 80, <<"TCP">>, 1),
      Connection("c2", IP1, IP2, 80, <<"TCP">>, 2),
      Connection("c3", IP1, IP2, 443, <<"TCP">>, 1) }

\* the policies of the engine's specification: one per action; the first two
\* share an id, so at most one of them is stored
EnginePolicies ==
    { Policy("p1", <<Port80>>, "allow"),
      Policy("p1", <<Port80>>, "block"),
      Policy("p2", <<>>, "alert") }

\* the connection evaluated against the engine's policies
VerdictConnections == { Connection("c1", IP1, IP2, 80, <<"TCP">>, 1) }

\* the client's specification: every call brings a connection of its own
\* (no score is ever cached), and the scorer answers with one of two scores
ClientConnection(r) == Connection(<<"conn", r>>, IP1, IP2, 1000 + r, <<"TCP">>, r)

ClientScores == {300, 950}

InitPM ==
    /\ policies = <<>>
    /\ policy_id_map = <<>>
    /\ next_order = 0
    /\ policies_without_conditions = {}
    /\ indexes = EmptyIndexes
    /\ pm_call = [op |-> "init"]

InitEngine ==
    /\ cache_key_to_anomaly_score = <<>>
    /\ connection_by_id = <<>>

\* last_request_time starts at 0.0 and the clock is far from 0: the first
\* batch never waits for the rate limit
InitAI ==
    /\ pending_queue = <<>>
    /\ last_request_time = 0
    /\ processing_task = 0
    /\ shutdown_event = FALSE
    /\ tasks = <<>>
    /\ reqs = <<>>
    /\ stops = <<>>
    /\ last_scorer_call = NoScorerCall
    /\ now = min_interval

Init == InitPM /\ InitEngine /\ InitAI

NextPM ==
    \/ \E p \in PolicyInputs : AddPolicy(p)
    \/ \E c \in QueryConnections : GetMatchingPolicyCall(c)

ProcessorStep(t, outcome) ==
    \/ ProcessorRun(t, outcome)
    \/ ProcessorGet(t, outcome)
    \/ ProcessorTimeout(t, outcome)
    \/ ProcessorIdleWake(t, outcome)
    \/ ProcessorRateWake(t, outcome)
    \/ ProcessorCancelled(t, outcome)

NextAI ==
    \/ EvaluateConnection(ClientConnection(Len(reqs) + 1))
    \/ \E r \in 1..Len(reqs) : EvaluateResume(r)
    \/ \E t \in 1..Len(tasks), outcome \in ScorerOutcomes(ClientScores) :
          ProcessorStep(t, outcome)
    \/ StartCall
    \/ (Len(stops) < MaxStopsUnderLoad /\ StopCall)
    \/ \E s \in 1..Len(stops) : StopTimeout(s) \/ StopTaskDone(s) \/ StopJoinReturn(s)
    \/ Tick

SpecPM == Init /\ [][NextPM]_vars

\* the policy manager with clear_policies
NextPMClear ==
    \/ NextPM
    \/ ClearPolicies

SpecPMClear == Init /\ [][NextPMClear]_vars

SpecAI == Init /\ [][NextAI]_vars

\* the event loop runs every task and every caller that can run, the
\* timeout of stop() fires when the task has not ended, and time passes;
\* the callers of the client are free to make no further call
ProcessorProgress ==
    \E t \in 1..Len(tasks), outcome \in ScorerOutcomes(ClientScores) :
        ProcessorStep(t, outcome)

CallerProgress ==
    \/ \E r \in 1..Len(reqs) : EvaluateResume(r)
    \/ \E s \in 1..Len(stops) : StopTimeout(s) \/ StopTaskDone(s) \/ StopJoinReturn(s)

\* start() and stop() called one after the other by a single caller, each
\* call awaited before the next is made; no request is submitted, so the
\* processor never gets an item or dispatches, and stop() finds the queue
\* empty and has nothing to join
NoStopInProgress == \A s \in 1..Len(stops) : stops[s].pc = "returned"

NextLifecycle ==
    \/ (NoStopInProgress /\ StartCall)
    \/ (NoStopInProgress /\ StopCall)
    \/ \E t \in 1..Len(tasks), outcome \in ScorerOutcomes(ClientScores) :
          \/ ProcessorRun(t, outcome)
          \/ ProcessorTimeout(t, outcome)
          \/ ProcessorIdleWake(t, outcome)
          \/ ProcessorCancelled(t, outcome)
    \/ \E s \in 1..Len(stops) : StopTimeout(s) \/ StopTaskDone(s)
    \/ Tick

SpecLifecycle == Init /\ [][NextLifecycle]_vars

SpecAILive ==
    /\ Init /\ [][NextAI]_vars
    /\ WF_vars(ProcessorProgress)
    /\ WF_vars(CallerProgress)
    /\ WF_vars(Tick)

\* time passes after the last call has been made: the calls of a run are
\* made while now <= min_interval + MaxTime, and the processor is given the
\* time to collect and dispatch, at the rate limit, what was submitted
GraceTime == MaxRequests * (min_interval + batch_timeout + MinWait)

CallsOpen == now <= min_interval + MaxTime

TickLate ==
    /\ now >= min_interval + MaxTime
    /\ now < min_interval + MaxTime + GraceTime
    /\ \A t \in 1..Len(tasks) : ~TimerDue(t) /\ ~TaskReady(t)
    /\ ~CallerReady
    /\ now' = now + 1
    /\ UNCHANGED <<pending_queue, last_request_time, processing_task,
                   shutdown_event, tasks, reqs, stops, last_scorer_call>>
    /\ UNCHANGED <<pm_vars, engine_vars>>

\* the client started by get_anomaly_score only, with stop() calls whose
\* 10 s timeout does not fire: the processor is never cancelled
NextGraceful ==
    \/ (CallsOpen /\ EvaluateConnection(ClientConnection(Len(reqs) + 1)))
    \/ \E r \in 1..Len(reqs) : EvaluateResume(r)
    \/ \E t \in 1..Len(tasks), outcome \in ScorerOutcomes(ClientScores) :
          \/ ProcessorRun(t, outcome)
          \/ ProcessorGet(t, outcome)
          \/ ProcessorTimeout(t, outcome)
          \/ ProcessorIdleWake(t, outcome)
          \/ ProcessorRateWake(t, outcome)
    \/ (CallsOpen /\ Len(stops) < MaxStopsUnderLoad /\ StopCall)
    \/ \E s \in 1..Len(stops) : StopTaskDone(s) \/ StopJoinReturn(s)
    \/ Tick
    \/ TickLate

GracefulProcessorProgress ==
    \E t \in 1..Len(tasks), outcome \in ScorerOutcomes(ClientScores) :
        \/ ProcessorRun(t, outcome)
        \/ ProcessorGet(t, outcome)
        \/ ProcessorTimeout(t, outcome)
        \/ ProcessorIdleWake(t, outcome)
        \/ ProcessorRateWake(t, outcome)

GracefulCallerProgress ==
    \/ \E r \in 1..Len(reqs) : EvaluateResume(r)
    \/ \E s \in 1..Len(stops) : StopTaskDone(s) \/ StopJoinReturn(s)

SpecGraceful ==
    /\ Init /\ [][NextGraceful]_vars
    /\ WF_vars(GracefulProcessorProgress)
    /\ WF_vars(GracefulCallerProgress)
    /\ WF_vars(Tick)
    /\ WF_vars(TickLate)

\* the client used by callers that make no call while a stop() is in
\* progress; the 10 s timeout of stop() does not fire.  One processor runs
\* at a time.
NextSequential ==
    \/ (NoStopInProgress /\ EvaluateConnection(ClientConnection(Len(reqs) + 1)))
    \/ \E r \in 1..Len(reqs) : EvaluateResume(r)
    \/ \E t \in 1..Len(tasks), outcome \in ScorerOutcomes(ClientScores) :
          \/ ProcessorRun(t, outcome)
          \/ ProcessorGet(t, outcome)
          \/ ProcessorTimeout(t, outcome)
          \/ ProcessorIdleWake(t, outcome)
          \/ ProcessorRateWake(t, outcome)
    \/ (NoStopInProgress /\ Len(stops) < MaxStopsUnderLoad /\ StopCall)
    \/ \E s \in 1..Len(stops) : StopTaskDone(s)
    \/ Tick

SpecSequential == Init /\ [][NextSequential]_vars

\* the client with callers that are cancelled while they wait
NextCallerCancel ==
    \/ EvaluateConnection(ClientConnection(Len(reqs) + 1))
    \/ \E r \in 1..Len(reqs) : EvaluateResume(r)
    \/ \E r \in 1..Len(reqs) : CancelCaller(r)
    \/ \E t \in 1..Len(tasks), outcome \in ScorerOutcomes(ClientScores) :
          \/ ProcessorRun(t, outcome)
          \/ ProcessorGet(t, outcome)
          \/ ProcessorTimeout(t, outcome)
          \/ ProcessorIdleWake(t, outcome)
          \/ ProcessorRateWake(t, outcome)
    \/ (NoStopInProgress /\ Len(stops) < MaxStopsUnderLoad /\ StopCall)
    \/ \E s \in 1..Len(stops) : StopTaskDone(s)
    \/ Tick

SpecCallerCancel == Init /\ [][NextCallerCancel]_vars

\* the policy manager behind the input boundary: policies as POST /policies
\* accepts them, with protocol conditions written in either case, and
\* connections as Connection.from_input builds them from a ConnectionInput
ProtoTcpLower == Condition("protocol", StrV(<<"tcp">>))

ProtocolPolicies ==
    { Policy("p1", <<ProtoTcpLower>>, "allow"),
      Policy("p1", <<ProtoTCP>>, "allow"),
      Policy("p2", <<Port80, ProtoTcpLower>>, "block"),
      Policy("p2", <<ProtoUDP>>, "block"),
      Policy("p3", <<Port443>>, "alert"),
      Policy("p3", <<ProtoTCP>>, "alert") }

ProtocolInputs ==
    { ConnectionInput(IP1, IP2, port, proto, 0) :
        port \in {80, 443}, proto \in {<<"tcp">>, <<"TCP">>, <<"udp">>, <<"icmp">>} }

NextProtocol ==
    \/ \E p \in ProtocolPolicies : AddPolicy(p)
    \/ \E data \in ProtocolInputs :
          ValidInput(data) /\ GetMatchingPolicyCall(FromInput("c1", data))

SpecProtocol == Init /\ [][NextProtocol]_vars

\* POST /policies, with lookups between the requests
NextPolicyApi ==
    \/ \E p \in PolicyInputs : DefineSecurityPolicy(p)
    \/ \E c \in QueryConnections : GetMatchingPolicyCall(c)

SpecPolicyApi == Init /\ [][NextPolicyApi]_vars

\* uuid.uuid4() of Connection.from_input: a new id for every submission
Uuid(n) == <<"uuid", n>>

ApiInputs ==
    { ConnectionInput(IP1, IP2, port, proto, 0) :
        port \in {80, 443}, proto \in {<<"tcp">>, <<"TCP">>} }

\* submit_connection, main.py lines 94-113, up to the first await
SubmitConnection(data) ==
    /\ ValidInput(data)
    /\ EvaluateConnection(FromInput(Uuid(Len(reqs) + 1), data))

\* the answer of submit_connection to request r: 200 with the analyzed
\* connection, 500 for an Exception; CancelledError is not an Exception
\* and leaves the handler without an answer
NoResponse == [status |-> 0]

SubmitResponse(r) ==
    CASE reqs[r].pc # "done" -> NoResponse
      [] reqs[r].outcome.kind = "return" ->
            [status |-> 200, body |-> reqs[r].outcome.analyzed]
      [] reqs[r].outcome = Raised("CancelledError") -> NoResponse
      [] OTHER -> [status |-> 500]

\* POST /connections and GET /connections/{connection_id}
NextConnectionApi ==
    \/ \E data \in ApiInputs : SubmitConnection(data)
    \/ \E r \in 1..Len(reqs) : EvaluateResume(r)
    \/ \E t \in 1..Len(tasks), outcome \in ScorerOutcomes(Scores) :
          ProcessorStep(t, outcome)
    \/ Tick

SpecConnectionApi == Init /\ [][NextConnectionApi]_vars

\* the client with start(), stop() and requests made at any time, stop()
\* calls in progress included; the 10 s timeout of stop() does not fire, and
\* the scorer raises or answers with one score
RestartScores == {300}

NextRestart ==
    \/ EvaluateConnection(ClientConnection(Len(reqs) + 1))
    \/ \E r \in 1..Len(reqs) : EvaluateResume(r)
    \/ \E t \in 1..Len(tasks), outcome \in ScorerOutcomes(RestartScores) :
          \/ ProcessorRun(t, outcome)
          \/ ProcessorGet(t, outcome)
          \/ ProcessorTimeout(t, outcome)
          \/ ProcessorIdleWake(t, outcome)
          \/ ProcessorRateWake(t, outcome)
    \/ StartCall
    \/ StopCall
    \/ \E s \in 1..Len(stops) : StopTaskDone(s) \/ StopJoinReturn(s)
    \/ Tick

SpecRestart == Init /\ [][NextRestart]_vars

\* _collect_batch on the scale of its 1 ms floor: one processor calls
\* _collect_batch again and again while items arrive in the queue.  The
\* batch being collected is tasks[1]; time is counted in units of the floor.
CollectMinWait == 1

\* Config.AI_BATCH_TIMEOUT_MS, in units of the floor
CollectBatchTimeout == 2

\* Config.AI_MAX_BATCH_SIZE
CollectBatchSize == 4

MaxArrivals == 5
MaxCollectTime == 8

\* lines 37-38
CollectTimeoutRemaining(batch_start_time) ==
    Max(CollectMinWait, CollectBatchTimeout - (now - batch_start_time))

\* lines 32-44: the lists are empty, batch_start_time is taken and the first
\* wait_for begins
CollectBatchEnter ==
    /\ IF tasks = <<>> THEN TRUE ELSE tasks[1].pc = "returned"
    /\ tasks' = <<[pc |-> "collect", connections |-> <<>>,
                   batch_start_time |-> now,
                   deadline |-> now + CollectTimeoutRemaining(now),
                   drain |-> FALSE, cancel |-> FALSE]>>
    /\ UNCHANGED <<pending_queue, last_request_time, processing_task,
                   shutdown_event, reqs, stops, last_scorer_call, now>>
    /\ UNCHANGED <<pm_vars, engine_vars>>

\* lines 41-50 and 36: the wait_for returns an item; batch_start_time is
\* reset at the first item, and the loop ends when the batch is full
CollectBatchGet ==
    /\ tasks # <<>> /\ tasks[1].pc = "collect"
    /\ pending_queue # <<>>
    /\ LET connections == Append(tasks[1].connections, Head(pending_queue))
           start == IF Len(connections) = 1 THEN now ELSE tasks[1].batch_start_time
       IN tasks' = <<[tasks[1] EXCEPT
                        !.connections = connections,
                        !.batch_start_time = start,
                        !.pc = IF Len(connections) < CollectBatchSize
                               THEN "collect" ELSE "returned",
                        !.deadline = now + CollectTimeoutRemaining(start)]>>
    /\ pending_queue' = Tail(pending_queue)
    /\ UNCHANGED <<last_request_time, processing_task, shutdown_event, reqs,
                   stops, last_scorer_call, now>>
    /\ UNCHANGED <<pm_vars, engine_vars>>

\* lines 52-53 and 60: the wait_for times out, on an empty queue, and the
\* batch is returned
CollectBatchTimeoutExpires ==
    /\ tasks # <<>> /\ tasks[1].pc = "collect"
    /\ now >= tasks[1].deadline
    /\ pending_queue = <<>>
    /\ tasks' = <<[tasks[1] EXCEPT !.pc = "returned"]>>
    /\ UNCHANGED <<pending_queue, last_request_time, processing_task,
                   shutdown_event, reqs, stops, last_scorer_call, now>>
    /\ UNCHANGED <<pm_vars, engine_vars>>

\* get_anomaly_score, lines 150-151: an item is put on the queue; the items
\* are numbered by the time of their arrival
ItemArrives ==
    /\ Len(reqs) < MaxArrivals
    /\ reqs' = Append(reqs, now)
    /\ pending_queue' = Append(pending_queue, Len(reqs) + 1)
    /\ UNCHANGED <<last_request_time, processing_task, shutdown_event, tasks,
                   stops, last_scorer_call, now>>
    /\ UNCHANGED <<pm_vars, engine_vars>>

\* time passes, unless the collector can run: a wait_for whose item is there
\* or whose time has come returns before the clock moves on
CollectTick ==
    /\ now < min_interval + MaxCollectTime
    /\ tasks # <<>> /\ tasks[1].pc = "collect"
    /\ pending_queue = <<>>
    /\ now < tasks[1].deadline
    /\ now' = now + 1
    /\ UNCHANGED <<pending_queue, last_request_time, processing_task,
                   shutdown_event, tasks, reqs, stops, last_scorer_call>>
    /\ UNCHANGED <<pm_vars, engine_vars>>

NextCollect ==
    \/ CollectBatchEnter
    \/ CollectBatchGet
    \/ CollectBatchTimeoutExpires
    \/ ItemArrives
    \/ CollectTick

SpecCollect == Init /\ [][NextCollect]_vars

\* add_policy with, besides the policies of PolicyInputs, one whose first
\* condition has an unhashable value: its later condition is never indexed
IndexPolicies ==
    PolicyInputs \cup { Policy("p4", <<SrcList, ProtoTCP>>, "block") }

NextIndex ==
    \/ \E p \in IndexPolicies : AddPolicy(p)
    \/ \E c \in QueryConnections : GetMatchingPolicyCall(c)

SpecIndex == Init /\ [][NextIndex]_vars

\* connections as the Connection type admits them: source_ip and
\* destination_ip are strings without validation.  The first two differ in
\* both addresses, the third has the tuple of the first.
FingerprintConnections ==
    { Connection("c1", IP1, IP2 \o <<"-">> \o IP1, 80, <<"TCP">>, 1),
      Connection("c2", IP1 \o <<"-">> \o IP2, IP1, 80, <<"TCP">>, 2),
      Connection("c3", IP1, IP2 \o <<"-">> \o IP1, 80, <<"TCP">>, 3),
      Connection("c4", IP1, IP2, 80, <<"TCP">>, 4) }

NextFingerprint ==
    \/ \E conn \in FingerprintConnections : EvaluateConnection(conn)
    \/ \E r \in 1..Len(reqs) : EvaluateResume(r)
    \/ \E t \in 1..Len(tasks), outcome \in ScorerOutcomes(Scores) :
          ProcessorStep(t, outcome)
    \/ Tick

SpecFingerprint == Init /\ [][NextFingerprint]_vars

NextEngine ==
    \/ \E conn \in RequestConnections : EvaluateConnection(conn)
    \/ \E r \in 1..Len(reqs) : EvaluateResume(r)
    \/ \E t \in 1..Len(tasks), outcome \in ScorerOutcomes(Scores) :
          ProcessorStep(t, outcome)
    \/ Tick

SpecEngine == Init /\ [][NextEngine]_vars

NextVerdict ==
    \/ \E p \in EnginePolicies : AddPolicy(p)
    \/ \E conn \in VerdictConnections : EvaluateConnection(conn)
    \/ \E r \in 1..Len(reqs) : EvaluateResume(r)
    \/ \E t \in 1..Len(tasks), outcome \in ScorerOutcomes(Scores) :
          ProcessorStep(t, outcome)
    \/ Tick

SpecVerdict == Init /\ [][NextVerdict]_vars

----------------------------------------------------------------------------
(* Properties of the PolicyManager *)

\* a condition holds on a connection
Holds(cond, connection) == GetAttr(connection, cond.field) = cond.value

HoldingConditions(policy, connection) ==
    { i \in 1..Len(policy.conditions) : Holds(policy.conditions[i], connection) }

Matches(policy, connection) ==
    HoldingConditions(policy, connection) = 1..Len(policy.conditions)

PartlyMatches(policy, connection) ==
    /\ HoldingConditions(policy, connection) # {}
    /\ HoldingConditions(policy, connection) # 1..Len(policy.conditions)

MatchingPositions(connection) ==
    { i \in 1..Len(policies) : Matches(policies[i], connection) }

IsQuery == pm_call.op = "get_matching_policy"

\* C1: get_matching_policy(C) returns the stored policy of lowest insertion
\* order among those whose every condition equals the field of C, and None
\* exactly when no stored policy matches.
C1_PolicyPriority ==
    IsQuery =>
        LET m == MatchingPositions(pm_call.connection)
        IN IF m = {}
           THEN pm_call.result = NoneResult
           ELSE /\ pm_call.result.kind = "policy"
                /\ \E i \in m :
                      /\ pm_call.result.policy = policies[i]
                      /\ \A j \in m :
                            policies[i].original_order <= policies[j].original_order

\* two stored policies match the connection and the one added first is returned
C1_Witness ==
    /\ IsQuery
    /\ Cardinality(MatchingPositions(pm_call.connection)) >= 2
    /\ pm_call.result.kind = "policy"
    /\ 2 \in MatchingPositions(pm_call.connection)
    /\ pm_call.result.policy = policies[2]

\* C8: add_policy with a stored policy_id raises ValueError and leaves the
\* list, the id map, the indexes, the unconditional set and the order
\* counter unchanged; the policy first stored under the id stays the only one.
C8_DuplicateAdmission ==
    [][ ( /\ pm_call' # pm_call
          /\ pm_call'.op = "add_policy"
          /\ pm_call'.policy.policy_id \in DOMAIN policy_id_map )
        => ( /\ pm_call'.result = Raised("ValueError")
             /\ UNCHANGED <<policies, policy_id_map, next_order,
                             policies_without_conditions, indexes>>
             /\ Cardinality({ i \in 1..Len(policies') :
                     policies'[i].policy_id = pm_call'.policy.policy_id }) = 1
             /\ \A i \in 1..Len(policies') :
                   policies'[i].policy_id = pm_call'.policy.policy_id
                   => policies'[i] = policy_id_map[pm_call'.policy.policy_id] ) ]_vars

\* a second add under a stored id, with other conditions, was rejected
C8_Witness ==
    /\ pm_call.op = "add_policy"
    /\ pm_call.result = Raised("ValueError")
    /\ pm_call.policy.policy_id \in DOMAIN policy_id_map
    /\ policy_id_map[pm_call.policy.policy_id].conditions # pm_call.policy.conditions
    /\ Len(policies) >= 2

\* C9: a policy is returned only if every one of its conditions holds on the
\* connection; a policy of which only some conditions hold is not returned,
\* and the search goes on to the later policies.
C9_ConjunctiveConditions ==
    IsQuery =>
        /\ pm_call.result.kind = "policy" =>
              \A i \in 1..Len(pm_call.result.policy.conditions) :
                  Holds(pm_call.result.policy.conditions[i], pm_call.connection)
        /\ \A i \in 1..Len(policies) :
              PartlyMatches(policies[i], pm_call.connection) =>
                  /\ pm_call.result # PolicyResult(policies[i])
                  /\ (\E j \in (i + 1)..Len(policies) :
                         Matches(policies[j], pm_call.connection))
                     => pm_call.result.kind = "policy"

\* a policy with two conditions, one of which holds, was a candidate and was
\* skipped; a later policy was returned
C9_Witness ==
    /\ IsQuery
    /\ pm_call.result.kind = "policy"
    /\ \E i \in 1..Len(policies) :
          /\ PartlyMatches(policies[i], pm_call.connection)
          /\ policies[i].original_order < pm_call.result.policy.original_order

UnconditionalPositions == { i \in 1..Len(policies) : policies[i].conditions = <<>> }

\* C10: when a policy without conditions is stored, get_matching_policy
\* returns a policy for every connection, and it returns the unconditional
\* policy unless a policy added earlier matches the connection.
C10_EmptyConditionsMatchAll ==
    (IsQuery /\ UnconditionalPositions # {}) =>
        /\ pm_call.result.kind = "policy"
        /\ \A k \in UnconditionalPositions :
              (\A j \in 1..(k - 1) : ~Matches(policies[j], pm_call.connection))
              => pm_call.result.policy = policies[k]

\* the unconditional policy was returned although it was not added first and
\* the index holds entries for the connection's fields
C10_Witness ==
    /\ IsQuery
    /\ pm_call.result.kind = "policy"
    /\ pm_call.result.policy.conditions = <<>>
    /\ pm_call.result.policy.original_order >= 1
    /\ \E i \in 1..Len(policies) : PartlyMatches(policies[i], pm_call.connection)

\* C11: after clear_policies the manager behaves like a new one:
\* get_matching_policy returns None for every connection without raising,
\* every policy id can be added again, and the policy added next gets
\* original_order 0.
C11_ClearResetsAllState ==
    pm_call.op = "clear_policies" =>
        /\ \A c \in QueryConnections : GetMatchingPolicy(c) = NoneResult
        /\ \A p \in PolicyInputs :
              /\ ~AddPolicyConflict(p)
              /\ AddPolicyOutcome(p).policies[1].original_order = 0

----------------------------------------------------------------------------
(* Properties of the DecisionEngine and of the AIServiceClient *)

\* evaluate_connection call r returns in this step
Returns(r) ==
    /\ r \in 1..Len(reqs')
    /\ reqs'[r].pc = "done"
    /\ reqs'[r].outcome.kind = "return"
    /\ IF r \in 1..Len(reqs) THEN reqs[r].pc # "done" ELSE TRUE

\* the verdict table of the decision engine
VerdictTable(matched, score) ==
    IF matched.kind # "policy"
    THEN IF score > 800 THEN "alert" ELSE "drop"
    ELSE IF matched.policy.action \in {"block", "alert"}
         THEN matched.policy.action
         ELSE IF score > 800 THEN "alert" ELSE "allow"

\* C2: for every score S and match result P the decision is: drop for no
\* match and S <= 0.8, alert for no match and S > 0.8, P.action for block and
\* alert, allow for allow and S <= 0.8, alert for allow and S > 0.8; a score
\* of exactly 0.8 does not raise the alert.
C2_VerdictResolution ==
    [][ \A r \in 1..Len(reqs') :
          Returns(r) =>
            reqs'[r].outcome.analyzed.decision =
                VerdictTable(GetMatchingPolicy(reqs'[r].conn),
                             reqs'[r].outcome.analyzed.anomaly_score) ]_vars

\* an allow policy matched a connection scored exactly 0.8 and the verdict is allow
C2_Witness ==
    \E r \in 1..Len(reqs) :
        /\ reqs[r].pc = "done"
        /\ reqs[r].outcome.kind = "return"
        /\ reqs[r].called_ai
        /\ reqs[r].outcome.analyzed.anomaly_score = 800
        /\ reqs[r].outcome.analyzed.policy_id = "p1"
        /\ reqs[r].outcome.analyzed.decision = "allow"

\* the requests held by a processor task that has not ended
HeldBy(t) == { tasks[t].connections[i] : i \in 1..Len(tasks[t].connections) }

Queued == { pending_queue[i] : i \in 1..Len(pending_queue) }

\* C3: every get_anomaly_score call completes with exactly one outcome: no
\* future is completed twice, and no waiter is left pending for ever.  A
\* pending future can only be completed by the processor that finds it in
\* the pending queue or holds it in its batch; a waiter whose future is
\* pending and in neither place stays pending for ever.
C3_ExactlyOneOutcome ==
    \A r \in 1..Len(reqs) :
        /\ reqs[r].completions <= 1
        /\ (reqs[r].pc = "waiting" /\ reqs[r].future.state = "pending")
           => \/ r \in Queued
              \/ \E t \in 1..Len(tasks) : r \in HeldBy(t)

\* a scorer invocation is made in this step
Invokes == last_scorer_call' # last_scorer_call

\* C4: requests reach the scorer in the order they were enqueued, across
\* batches and within a batch, and the score at index i of the answer goes
\* to the future of the i-th request of the batch and to no other future.
C4_BatchOrdering ==
    [][ Invokes =>
          LET batch == last_scorer_call'.connections
              answer == last_scorer_call'.outcome
          IN /\ \A i, j \in 1..Len(batch) : i < j => batch[i] < batch[j]
             /\ \A i \in 1..Len(last_scorer_call.connections), j \in 1..Len(batch) :
                   last_scorer_call.connections[i] < batch[j]
             /\ answer.kind = "scores" =>
                   /\ \A i \in 1..Len(batch) :
                         reqs'[batch[i]].future =
                             [state |-> "result", value |-> answer.scores[i]]
                   /\ \A r \in 1..Len(reqs) :
                         (\A i \in 1..Len(batch) : batch[i] # r)
                         => reqs'[r].future = reqs[r].future ]_vars

\* C5: every scorer invocation, in normal processing and in the shutdown
\* drain, carries at least 1 and at most max_batch_size connections.
C5_BatchSizeBounds ==
    last_scorer_call # NoScorerCall =>
        /\ Len(last_scorer_call.connections) >= 1
        /\ Len(last_scorer_call.connections) <= max_batch_size

\* a full batch was sent during the shutdown drain while more was queued
C5_Witness ==
    /\ last_scorer_call # NoScorerCall
    /\ last_scorer_call.drain
    /\ Len(last_scorer_call.connections) = max_batch_size
    /\ pending_queue # <<>>

\* C6: the starts of two successive scorer invocations are at least
\* min_interval apart, also across stop and restart.
C6_RateLimit ==
    [][ (Invokes /\ last_scorer_call # NoScorerCall)
        => last_scorer_call'.time - last_scorer_call.time >= min_interval ]_vars

SameTuple(c, d) ==
    /\ c.source_ip = d.source_ip
    /\ c.destination_ip = d.destination_ip
    /\ c.destination_port = d.destination_port
    /\ c.protocol = d.protocol

\* the evaluations that have returned before this step
Returned == { q \in 1..Len(reqs) : reqs[q].pc = "done" /\ reqs[q].outcome.kind = "return" }

\* C7: once an evaluation of a connection has completed, every evaluation of
\* a connection with the same (source_ip, destination_ip, destination_port,
\* protocol) that completes afterwards returns the same anomaly_score, also
\* when it was in flight before the first completed, and every such
\* evaluation that starts afterwards does not call the AI client.
C7_ScoreDeterminism ==
    [][ \A r \in 1..Len(reqs') :
          /\ Returns(r) =>
               \A q \in Returned :
                   SameTuple(reqs[q].conn, reqs'[r].conn) =>
                       reqs'[r].outcome.analyzed.anomaly_score =
                           reqs[q].outcome.analyzed.anomaly_score
          /\ (r > Len(reqs) /\ \E q \in Returned : SameTuple(reqs[q].conn, reqs'[r].conn))
             => ~reqs'[r].called_ai ]_vars

\* the future of request r was completed by a scorer invocation: with the
\* scorer's score or with the scorer's error
AnsweredByScorer(r) ==
    \/ reqs[r].future.state = "result"
    \/ reqs[r].future.state = "exception" /\ reqs[r].future.exc = "ScorerError"

\* C12: when a stop() that signalled shutdown has returned, every request
\* enqueued before the signal has been dispatched to the scorer and has
\* completed with the scorer's score or error, not with a cancellation
\* error and not still pending.
C12_GracefulShutdown ==
    \A s \in 1..Len(stops) :
        (stops[s].pc = "returned" /\ stops[s].task # 0)
        => \A r \in 1..stops[s].submitted :
              reqs[r].called_ai => AnsweredByScorer(r)

\* C13: every call of stop() eventually returns.
C13_StopTerminates ==
    \A s \in 1..MaxStops :
        (Len(stops) >= s) ~> (Len(stops) >= s /\ stops[s].pc = "returned")

\* the cancelled task t runs in this step: CancelledError is raised in it
CancelledNow(t) == tasks[t].cancel /\ tasks'[t] # tasks[t]

\* C14: when the cancelled processor runs, every request that has not been
\* dispatched, in the pending queue or in the processor's batch, completes
\* with a cancellation error.
C14_CancellationDrains ==
    [][ \A t \in 1..Len(tasks) :
          CancelledNow(t) =>
            \A r \in HeldBy(t) \cup Queued :
                reqs[r].future.state = "pending"
                => reqs'[r].future = [state |-> "exception", exc |-> "CancelledError"] ]_vars

\* the processor tasks that have started to run and have not ended
Consumers == { t \in 1..Len(tasks) : tasks[t].pc \in {"collect", "idle", "rate_wait"} }

\* C15: at most one background processor task consumes the pending queue.
C15_SingleConsumer == Cardinality(Consumers) <= 1

\* C16: when the scorer raises for a batch, every waiter of that batch and
\* no other gets that error; a request is dispatched only while its future
\* is pending, so a failed request is never sent again; and a processor
\* that sent the batch from its processing loop goes on to collect the next
\* batch unless shutdown was signalled.
C16_ScorerFailurePerBatch ==
    [][ Invokes =>
          LET batch == last_scorer_call'.connections
              t == last_scorer_call'.task
          IN /\ \A i \in 1..Len(batch) : reqs[batch[i]].future.state = "pending"
             /\ last_scorer_call'.outcome.kind = "raise" =>
                   /\ \A i \in 1..Len(batch) :
                         reqs'[batch[i]].future =
                             [state |-> "exception", exc |-> "ScorerError"]
                   /\ \A r \in 1..Len(reqs) :
                         (\A i \in 1..Len(batch) : batch[i] # r)
                         => reqs'[r].future = reqs[r].future
                   /\ (~last_scorer_call'.drain /\ ~shutdown_event)
                      => tasks'[t].pc = "collect" ]_vars

\* a processor whose earlier batch failed has been answered by the scorer
\* for a request enqueued later
C16_Witness ==
    /\ last_scorer_call.outcome.kind = "scores"
    /\ ~last_scorer_call.drain
    /\ Len(tasks) = 1
    /\ \E r \in 1..Len(reqs) :
          /\ reqs[r].future = [state |-> "exception", exc |-> "ScorerError"]
          /\ r < last_scorer_call.connections[1]
          /\ reqs[last_scorer_call.connections[1]].future.state = "result"

\* evaluate_connection call r ends in this step with the error of get_anomaly_score
Fails(r) ==
    /\ r \in 1..Len(reqs)
    /\ reqs[r].pc = "waiting"
    /\ reqs[r].future.state = "exception"
    /\ reqs'[r].pc = "done"

\* C17: when get_anomaly_score fails, evaluate_connection raises that error,
\* the score cache and the result store are unchanged, and an evaluation
\* that starts while the fingerprint has no cache entry calls the AI client.
C17_EngineFailure ==
    [][ \A r \in 1..Len(reqs') :
          /\ Fails(r) =>
                /\ reqs'[r].outcome = Raised(reqs[r].future.exc)
                /\ cache_key_to_anomaly_score' = cache_key_to_anomaly_score
                /\ connection_by_id' = connection_by_id
          /\ (r > Len(reqs)
              /\ MakeCacheKey(reqs'[r].conn) \notin DOMAIN cache_key_to_anomaly_score)
             => reqs'[r].called_ai ]_vars

\* an evaluation failed with the scorer's error, nothing is cached or stored
\* for it, and a later call for the same fingerprint went to the AI client
\* and returned
C17_Witness ==
    \E r, q \in 1..Len(reqs) :
        /\ r < q
        /\ reqs[r].outcome = Raised("ScorerError")
        /\ reqs[r].conn.connection_id \notin DOMAIN connection_by_id
        /\ SameTuple(reqs[r].conn, reqs[q].conn)
        /\ reqs[q].called_ai
        /\ reqs[q].outcome.kind = "return"

\* the ids get_connection is asked for: those submitted and one never submitted
LookupIds == { c.connection_id : c \in RequestConnections } \cup {"c0"}

\* an evaluation of connection_id returns in this step
ReturnsFor(connection_id) ==
    \E r \in 1..Len(reqs') : Returns(r) /\ reqs'[r].conn.connection_id = connection_id

\* C18: after evaluate_connection(c) returns r, get_connection of c's id
\* returns r until another evaluation of the same id completes, and
\* get_connection returns None for an id of which no evaluation has returned.
C18_ResultRoundTrip ==
    [][ \A id \in LookupIds :
              /\ \A r \in 1..Len(reqs') :
                    (Returns(r) /\ reqs'[r].conn.connection_id = id)
                    => GetConnection(id)' = reqs'[r].outcome.analyzed
              /\ ~ReturnsFor(id) => GetConnection(id)' = GetConnection(id)
              /\ (\A r \in 1..Len(reqs') :
                     reqs'[r].conn.connection_id = id => reqs'[r].outcome.kind # "return")
                 => GetConnection(id)' = NoneResult ]_vars

\* two evaluations of one connection_id returned different results and
\* get_connection gives the result of one of them
C18_Witness ==
    \E r, q \in 1..Len(reqs) :
        /\ r # q
        /\ reqs[r].outcome.kind = "return"
        /\ reqs[q].outcome.kind = "return"
        /\ reqs[r].conn.connection_id = reqs[q].conn.connection_id
        /\ reqs[r].outcome.analyzed # reqs[q].outcome.analyzed
        /\ GetConnection(reqs[q].conn.connection_id) = reqs[q].outcome.analyzed

\* C19: in the AnalyzedConnection an evaluation returns, and in the record
\* it stores, policy_id is None iff get_matching_policy returned None for
\* the connection at that time, and is the matched policy's id otherwise,
\* also when the decision was overridden to alert.
C19_PolicyIdIffMatched ==
    [][ \A r \in 1..Len(reqs') :
          Returns(r) =>
            LET analyzed == reqs'[r].outcome.analyzed
                matched == GetMatchingPolicy(reqs'[r].conn)
            IN /\ (analyzed.policy_id = NoPolicyId) <=> (matched.kind = "None")
               /\ matched.kind = "policy"
                  => analyzed.policy_id = matched.policy.policy_id
               /\ connection_by_id'[analyzed.connection_id].policy_id
                     = analyzed.policy_id ]_vars

\* an allow policy matched, the score overrode the decision to alert, and
\* the result carries the policy's id
C19_Witness ==
    \E r \in 1..Len(reqs) :
        /\ reqs[r].outcome.kind = "return"
        /\ reqs[r].outcome.analyzed.decision = "alert"
        /\ reqs[r].outcome.analyzed.policy_id = "p1"
        /\ "p1" \in DOMAIN policy_id_map
        /\ policy_id_map["p1"].action = "allow"
        /\ GetConnection(reqs[r].conn.connection_id).policy_id = "p1"

\* stop() call s returns in this step
StopReturns(s) ==
    /\ s \in 1..Len(stops')
    /\ stops'[s].pc = "returned"
    /\ IF s \in 1..Len(stops) THEN stops[s].pc # "returned" ELSE TRUE

\* C20: start() on a running client changes nothing; stop() on a stopped
\* client returns at once and changes nothing; and whenever a stop()
\* returns, the first as the second, the client has no processor, an empty
\* queue and can be started again.
C20_StartStopIdempotence ==
    [][ /\ (StartCall /\ ~NotRunning) => UNCHANGED vars
        /\ (StopCall /\ NotRunning) =>
              /\ StopReturns(Len(stops'))
              /\ UNCHANGED <<pending_queue, last_request_time, processing_task,
                             shutdown_event, tasks, reqs, last_scorer_call, now>>
        /\ \A s \in 1..Len(stops') :
              StopReturns(s) =>
                  /\ processing_task' = 0
                  /\ \A t \in 1..Len(tasks') : tasks'[t].pc = "done"
                  /\ pending_queue' = <<>>
                  /\ NotRunning' ]_vars

\* start(); stop(); stop(): the first stop ended a processor, the second
\* found the client stopped, and both have returned
C20_Witness ==
    /\ Len(stops) = 2
    /\ stops[1].pc = "returned" /\ stops[1].task # 0
    /\ stops[2].pc = "returned" /\ stops[2].task = 0
    /\ processing_task = 0
    /\ \A t \in 1..Len(tasks) : tasks[t].pc = "done"

\* get_anomaly_score call r is made in this step while no processor is running
AutoStarts(r) ==
    /\ r = Len(reqs) + 1
    /\ r = Len(reqs')
    /\ reqs'[r].called_ai
    /\ NotRunning

InBatch(batch) == { batch[i] : i \in 1..Len(batch) }

\* task t closes a batch in this step and sends it or holds it for its
\* rate-limit slot: the batch it closed last
ClosesBatch(t) ==
    \/ /\ tasks'[t].pc = "rate_wait"
       /\ tasks'[t].connections # tasks[t].connections
    \/ /\ Invokes
       /\ last_scorer_call'.task = t
       /\ tasks[t].pc # "rate_wait"
       /\ tasks'[t].pc # "rate_wait"

ClosedBatch(t) ==
    IF tasks'[t].pc = "rate_wait" THEN tasks'[t].connections
    ELSE last_scorer_call'.connections

\* the requests handed to the client and not answered after this step
Undispatched == { r \in 1..Len(reqs') :
                    reqs'[r].called_ai /\ reqs'[r].future.state = "pending" }

\* C22: the processor closes a batch of fewer than max_batch_size requests
\* only when it holds every request that is waiting for a score: the
\* pending queue is empty and no request is left outside the batch, in the
\* processing loop as in the drain.  So requests queued together go out in
\* full batches, max_batch_size requests in one scorer invocation.
C22_BatchCoalescing ==
    [][ \A t \in 1..Len(tasks) :
          (ClosesBatch(t) /\ Len(ClosedBatch(t)) < max_batch_size)
          => /\ pending_queue' = <<>>
             /\ Undispatched \subseteq InBatch(ClosedBatch(t)) ]_vars

\* C23: when the caller of a request has been cancelled, the scorer
\* invocation that carries the request leaves its future cancelled, sets
\* no error on any future, gives every waiter of the batch that is still
\* pending the score at its own position, and the processor goes on: after
\* a batch sent from the processing loop it collects the next batch unless
\* shutdown was signalled.
C23_CallerCancellation ==
    [][ (Invokes /\ last_scorer_call'.outcome.kind = "scores") =>
          LET batch == last_scorer_call'.connections
              scores == last_scorer_call'.outcome.scores
              t == last_scorer_call'.task
          IN /\ \A i \in 1..Len(batch) :
                   IF reqs[batch[i]].future.state = "cancelled"
                   THEN reqs'[batch[i]] = reqs[batch[i]]
                   ELSE reqs'[batch[i]].future =
                            [state |-> "result", value |-> scores[i]]
             /\ (~last_scorer_call'.drain /\ ~shutdown_event)
                => tasks'[t].pc = "collect" ]_vars

\* the first request of a batch of two was cancelled before the batch was
\* sent; the second got a score, other than the score at the first position
C23_Witness ==
    /\ Len(last_scorer_call.connections) = 2
    /\ last_scorer_call.outcome.kind = "scores"
    /\ last_scorer_call.outcome.scores[1] # last_scorer_call.outcome.scores[2]
    /\ reqs[last_scorer_call.connections[1]].future.state = "cancelled"
    /\ reqs[last_scorer_call.connections[2]].future =
           [state |-> "result", value |-> last_scorer_call.outcome.scores[2]]

\* evaluate_connection call r is made in this step and finds its score cached
CacheHit(r) ==
    /\ r = Len(reqs) + 1
    /\ r = Len(reqs')
    /\ MakeCacheKey(reqs'[r].conn) \in DOMAIN cache_key_to_anomaly_score

\* C24: an evaluation that finds its fingerprint in the score cache does not
\* call the AI client and returns the cached score, and its decision and
\* policy_id are resolved from that score and from the policy that
\* get_matching_policy returns for the policies stored at that time, also
\* when a policy was added after the score was cached.
C24_CachedScoreFreshPolicy ==
    [][ \A r \in 1..MaxRequests :
          CacheHit(r) =>
            LET conn == reqs'[r].conn
                score == cache_key_to_anomaly_score[MakeCacheKey(conn)]
                matched == GetMatchingPolicy(conn)
            IN /\ ~reqs'[r].called_ai
               /\ pending_queue' = pending_queue
               /\ reqs'[r].outcome.kind = "return"
               /\ reqs'[r].outcome.analyzed.anomaly_score = score
               /\ reqs'[r].outcome.analyzed.decision = VerdictTable(matched, score)
               /\ reqs'[r].outcome.analyzed.policy_id =
                     IF matched.kind = "policy" THEN matched.policy.policy_id
                     ELSE NoPolicyId
               /\ connection_by_id'[conn.connection_id] = reqs'[r].outcome.analyzed ]_vars

\* a connection was scored below the threshold and dropped for want of a
\* policy; a block policy was added; the second evaluation took the score
\* from the cache and returned block with the policy's id
C24_Witness ==
    \E q, r \in 1..Len(reqs) :
        /\ q < r
        /\ reqs[q].called_ai
        /\ reqs[q].outcome.kind = "return"
        /\ reqs[q].outcome.analyzed.decision = "drop"
        /\ ~reqs[r].called_ai
        /\ reqs[r].outcome.kind = "return"
        /\ reqs[r].outcome.analyzed.anomaly_score = reqs[q].outcome.analyzed.anomaly_score
        /\ reqs[r].outcome.analyzed.decision = "block"
        /\ reqs[r].outcome.analyzed.policy_id = "p1"

\* a condition holds on a connection when protocol values are compared in
\* uppercase
HoldsNormalized(cond, connection) ==
    IF cond.field = "protocol" /\ cond.value[1] = "str"
    THEN StrV(Upper(cond.value[2])) = GetAttr(connection, cond.field)
    ELSE Holds(cond, connection)

MatchesNormalized(policy, connection) ==
    \A i \in 1..Len(policy.conditions) :
        HoldsNormalized(policy.conditions[i], connection)

\* C25: a protocol condition is compared in uppercase: get_matching_policy
\* returns the first stored policy whose conditions hold on the connection
\* with protocol values normalized to uppercase, so a policy with condition
\* protocol == 'tcp' matches a connection submitted as 'tcp' or 'TCP'.
C25_ProtocolCaseNormalized ==
    IsQuery =>
        LET m == { i \in 1..Len(policies) :
                     MatchesNormalized(policies[i], pm_call.connection) }
        IN IF m = {}
           THEN pm_call.result = NoneResult
           ELSE /\ pm_call.result.kind = "policy"
                /\ \A i \in m :
                      pm_call.result.policy.original_order <= policies[i].original_order

StoredPolicy(policy, order) ==
    [policy_id |-> policy.policy_id, conditions |-> policy.conditions,
     action |-> policy.action, original_order |-> order]

\* C26: POST /policies answers 201 with the policy, which is then the last
\* of the stored policies, when its policy_id is not yet taken, and 409 when
\* the id is taken; a 409 leaves the stored policies and their order
\* unchanged.
C26_PostPolicies ==
    [][ pm_call'.op = "define_security_policy" =>
          IF pm_call'.policy.policy_id \in DOMAIN policy_id_map
          THEN /\ pm_call'.response.status = 409
               /\ policies' = policies
               /\ next_order' = next_order
          ELSE /\ pm_call'.response = [status |-> 201, body |-> pm_call'.policy]
               /\ policies' = Append(policies,
                                     StoredPolicy(pm_call'.policy, Len(policies)))
      ]_vars

\* the ids a GET can ask for: those of the submissions and one never issued
RequestedIds == { Uuid(n) : n \in 1..(MaxRequests + 1) }

SuccessfulSubmissions(id) ==
    { r \in 1..Len(reqs) :
        /\ SubmitResponse(r).status = 200
        /\ SubmitResponse(r).body.connection_id = id }

\* C27: GET /connections/{connection_id} answers 200 with the stored
\* AnalyzedConnection, the one the submission returned, for every id returned
\* by an earlier POST /connections answered 200, and 404 for every other id,
\* the ids of submissions answered 500 included.
C27_GetConnection ==
    \A id \in RequestedIds :
        IF SuccessfulSubmissions(id) # {}
        THEN /\ GetConnectionDetails(id).status = 200
             /\ \A r \in SuccessfulSubmissions(id) :
                   GetConnectionDetails(id).body = SubmitResponse(r).body
        ELSE GetConnectionDetails(id).status = 404

C27_Witness ==
    \E r, q \in 1..Len(reqs) :
        /\ SubmitResponse(r).status = 200
        /\ GetConnectionDetails(reqs[r].conn.connection_id).status = 200
        /\ SubmitResponse(q).status = 500
        /\ GetConnectionDetails(reqs[q].conn.connection_id).status = 404

\* the state of a _process_batches task: DRAINING once it has entered
\* _handle_shutdown, STOPPED once it has ended
ProcessorState(tk) ==
    IF tk.pc = "done" THEN "STOPPED"
    ELSE IF tk.drain THEN "DRAINING"
    ELSE "RUNNING"

\* C28: a processor only moves from RUNNING to DRAINING, on the shutdown
\* signal or a cancellation, and from DRAINING to STOPPED; a processor that
\* has observed the shutdown signal never waits for a batch again; and while
\* a processor is DRAINING no start() or get_anomaly_score() clears the
\* shutdown signal or starts a processor.
C28_ProcessorStateMachine ==
    [][ /\ \A t \in 1..Len(tasks) :
             /\ \/ ProcessorState(tasks'[t]) = ProcessorState(tasks[t])
                \/ /\ ProcessorState(tasks[t]) = "RUNNING"
                   /\ ProcessorState(tasks'[t]) \in {"DRAINING", "STOPPED"}
                   /\ shutdown_event \/ tasks[t].cancel
                \/ /\ ProcessorState(tasks[t]) = "DRAINING"
                   /\ ProcessorState(tasks'[t]) = "STOPPED"
             /\ ProcessorState(tasks'[t]) = "DRAINING" => tasks'[t].pc = "rate_wait"
        /\ (\E t \in 1..Len(tasks) : ProcessorState(tasks[t]) = "DRAINING") =>
             /\ shutdown_event => shutdown_event'
             /\ Len(tasks') = Len(tasks)
      ]_vars

\* C29: the batch timeout runs from the first item of the batch: when the
\* first item is taken the wait is batch_timeout from that moment, whatever
\* time was spent waiting for it; a batch is returned as soon as it holds
\* max_batch_size items; and no item is added to a batch later than
\* batch_timeout plus the 1 ms floor after the batch's first item.
C29_BatchAssemblyTiming ==
    [][ (tasks # <<>> /\ tasks[1].pc = "collect" /\ pending_queue' # pending_queue
            /\ Len(pending_queue') < Len(pending_queue)) =>
          /\ tasks[1].connections = <<>> =>
                /\ tasks'[1].batch_start_time = now
                /\ tasks'[1].deadline = now + CollectBatchTimeout
          /\ tasks[1].connections # <<>> =>
                now - tasks[1].batch_start_time <= CollectBatchTimeout + CollectMinWait
          /\ Len(tasks'[1].connections) = CollectBatchSize => tasks'[1].pc = "returned"
      ]_vars

\* the policy's condition i is registered in the index of its field under
\* its value
Registered(policy, i) ==
    LET cond == policy.conditions[i]
    IN /\ cond.value \in DOMAIN indexes[cond.field]
       /\ policy.original_order \in indexes[cond.field][cond.value]

C31_InsertionOrder ==
    [][ /\ pm_call'.op = "add_policy" =>
             IF pm_call'.result = NoneResult
             THEN /\ Len(policies') = Len(policies) + 1
                  /\ next_order' = next_order + 1
                  /\ \A i \in 1..Len(policies) :
                        policies[i].original_order
                            < policies'[Len(policies')].original_order
             ELSE /\ next_order' = next_order
                  /\ policies' = policies
        /\ next_order' = Len(policies')
        /\ \A k \in 1..Len(policies') : policies'[k].original_order = k - 1
      ]_vars

\* C32: when the client's task handle is empty (processing_task is None) no
\* processor task is running: every task created so far has ended.
C32_HandleProcessorConsistency ==
    processing_task = 0 => \A t \in 1..Len(tasks) : TaskDone(t)

\* C33: add_policy, whether it succeeds or fails, leaves the result of
\* get_matching_policy unchanged for every connection that had a matching
\* policy, and for a connection that had none the result is still None or
\* is a policy.
C33_AddKeepsExistingMatch ==
    [][ pm_call'.op = "add_policy" =>
          \A c \in QueryConnections :
              IF GetMatchingPolicy(c).kind = "policy"
              THEN GetMatchingPolicy(c)' = GetMatchingPolicy(c)
              ELSE GetMatchingPolicy(c)'.kind \in {"None", "policy"}
      ]_vars

\* a policy was added that matches a connection already matched by an
\* earlier policy, which is still the one returned, and a policy whose add
\* failed is stored
C33_Witness ==
    /\ pm_call.op = "add_policy"
    /\ pm_call.result = NoneResult
    /\ Len(policies) = 3
    /\ pm_call.policy.policy_id = policies[3].policy_id
    /\ \E c \in QueryConnections :
          /\ Matches(policies[3], c)
          /\ Matches(policies[1], c)
          /\ GetMatchingPolicy(c) = PolicyResult(policies[1])
    /\ \E n \in 1..Len(policies[2].conditions) :
          ~Hashable(policies[2].conditions[n].value)

HasCondition(policy, field, value) ==
    \E k \in 1..Len(policy.conditions) :
        /\ policy.conditions[k].field = field
        /\ policy.conditions[k].value = value

\* C34: in every state reached by add_policy and clear_policies, every order
\* in an index entry is a position of the policy list whose policy has that
\* condition, every order in the unconditional set is a position whose
\* policy has no conditions, and get_matching_policy raises for no
\* connection.
C34_IndexWellFormed ==
    /\ \A f \in DOMAIN indexes :
          \A v \in DOMAIN indexes[f] :
              \A o \in indexes[f][v] :
                  /\ o < Len(policies)
                  /\ HasCondition(policies[o + 1], f, v)
    /\ \A o \in policies_without_conditions :
          /\ o < Len(policies)
          /\ policies[o + 1].conditions = <<>>
    /\ \A c \in QueryConnections : GetMatchingPolicy(c).kind # "raise"

\* C35: once a score is stored under a fingerprint in the score cache, no
\* step removes the entry or changes the score stored under it.
C35_CacheWriteOnce ==
    [][ \A k \in DOMAIN cache_key_to_anomaly_score :
          /\ k \in DOMAIN cache_key_to_anomaly_score'
          /\ cache_key_to_anomaly_score'[k] = cache_key_to_anomaly_score[k] ]_vars

\* C36: connections that differ in source_ip, destination_ip,
\* destination_port or protocol share no score-cache entry: an evaluation
\* takes its score from the cache, without calling the AI client, only when
\* an evaluation of a connection with the same four fields has returned
\* before.
C36_FingerprintSeparates ==
    [][ (Len(reqs') = Len(reqs) + 1 /\ ~reqs'[Len(reqs')].called_ai) =>
          \E q \in Returned : SameTuple(reqs[q].conn, reqs'[Len(reqs')].conn)
      ]_vars

====
